---- MODULE Spec2Model ----
(***************************************************************************)
(* Teamificator: the People registry (draft phase, commit, frozen phase)   *)
(* and the team enumeration of src/teamificator.py, as a state machine.    *)
(*                                                                         *)
(* Python values and how they are represented:                             *)
(*   - a name is a string; an index is an integer;                         *)
(*   - self.people is a set of names until commit() makes it a list:       *)
(*     people[r] holds the set, peopleList[r] the list, kind[r].people     *)
(*     says which of the two the attribute currently is;                   *)
(*   - self.pairs / self.avoids are sets of 2-tuples of names until        *)
(*     commit() makes them lists of 2-tuples of indices: pairs[r] holds    *)
(*     the name tuples, pairsIdx[r] the index tuples (a list built from a  *)
(*     set of distinct tuples through an injective mapping has no          *)
(*     duplicates, and no code reads its order except to loop over all of  *)
(*     it, so it is held as a set), kind[r].pairs says which it is;        *)
(*   - the iteration order of a set of strings or of tuples of strings     *)
(*     depends on the hash seed of the process: every order is possible,   *)
(*     so "the first element a loop meets" is a nondeterministic choice;   *)
(*   - an exception is a string, "none" when the call returned normally.   *)
(***************************************************************************)
EXTENDS Integers, Sequences, FiniteSets, TLC

\* ---------------------------------------------------------------- bounds
\* the names the calls are made with
Names == {"A", "B", "C"}
\* the People instances of the process; the second one is there for the shared
\* blocker and is called with one name only
Reg == {"r1", "r2"}
NamesOf(r) == IF r = "r1" THEN Names ELSE {"A"}
\* SpecTeams constructs r1 as People(the first k of these), k <= MaxRoster
TeamNames == <<"A", "B", "C", "D", "E", "F", "G">>
MaxRoster == 4
\* pair / avoid are not called on a registry that holds MaxLinks links
MaxLinks == 3
\* add is not called on a registry that holds MaxPeople people
MaxPeople == 4

VARIABLES
    blockerState,   \* blocker.state, shared by every People instance
    people,         \* [Reg -> set of names]      self.people while a set
    peopleList,     \* [Reg -> sequence of names] self.people once a list
    pairs,          \* [Reg -> set of <<a, b>>]   self.pairs while a set
    avoids,         \* [Reg -> set of <<a, b>>]   self.avoids while a set
    pairsIdx,       \* [Reg -> set of <<i, j>>]   self.pairs once a list
    avoidsIdx,      \* [Reg -> set of <<i, j>>]   self.avoids once a list
    kind,           \* [Reg -> [people, pairs, avoids : {"set", "list"}]]
    last,           \* the last call: operation, receiver, arguments, exception
    ret             \* the value the last call returned

vars == <<blockerState, people, peopleList, pairs, avoids, pairsIdx, avoidsIdx,
          kind, last, ret>>

registry == <<people, peopleList, pairs, avoids, pairsIdx, avoidsIdx, kind>>

\* ---------------------------------------------------------------- exceptions
NoError == "none"
PhaseError == "RuntimeError: Function is blocked by now"
SetChanged == "RuntimeError: Set changed size during iteration"
NotFound == "ValueError: Person not found"
SamePerson == "ValueError: Cannot pair/avoid a person with itself"
AlreadyExists == "ValueError: link already exists"
Opposing == "ValueError: link exists in the other relation"
LinkNotFound == "ValueError: link not found"
NotInList == "ValueError: name is not in list"
BadN == "ValueError: n out of range"
NoTeams == "ValueError: No possible teams found"
NotSubscriptable == "TypeError: 'set' object is not subscriptable"
IndexError == "IndexError: list index out of range"

\* ---------------------------------------------------------------- helpers
Range(s) == {s[i] : i \in 1..Len(s)}

NoRet == [options |-> <<>>, bool |-> FALSE, names |-> <<>>]

Call(op, r, a, b, n, team, err) ==
    [op |-> op, reg |-> r, a |-> a, b |-> b, n |-> n, team |-> team, err |-> err]

\* `x in link` for a 2-tuple
Mentions(link, x) == link[1] = x \/ link[2] = x

\* `a in link and b in link`
Links(link, a, b) == Mentions(link, a) /\ Mentions(link, b)

\* len(self.people), for the set and for the list
RosterSize(r) ==
    IF kind[r].people = "list" THEN Len(peopleList[r]) ELSE Cardinality(people[r])

\* the names self.people holds, whichever container it is
Roster(r) ==
    IF kind[r].people = "list" THEN Range(peopleList[r]) ELSE people[r]

\* (a check that finds every name)
checkFindsAll(r, person) == NoError

\* People.check, as the exception it raises to the method that calls it (the
\* methods that call it run unblocked, so its own wrapper lets it through; a
\* name is a str, so the isinstance test passes)
check(r, person) == IF person \in people[r] THEN NoError ELSE NotFound

\* ---------------------------------------------------------------- Init
Init ==
    /\ blockerState = FALSE
    /\ people = [r \in Reg |-> {}]
    /\ peopleList = [r \in Reg |-> <<>>]
    /\ pairs = [r \in Reg |-> {}]
    /\ avoids = [r \in Reg |-> {}]
    /\ pairsIdx = [r \in Reg |-> {}]
    /\ avoidsIdx = [r \in Reg |-> {}]
    /\ kind = [r \in Reg |-> [people |-> "set", pairs |-> "set", avoids |-> "set"]]
    /\ last = Call("init", "r1", "", "", 0, <<>>, NoError)
    /\ ret = NoRet

\* a call that raises err and changes nothing
Raise(op, r, a, b, n, team, err) ==
    /\ last' = Call(op, r, a, b, n, team, err)
    /\ ret' = NoRet
    /\ UNCHANGED <<blockerState, registry>>

\* (a wrapper that lets every draft-phase method through)
permitsDraftAlways(state) == state = FALSE \/ blockerState = state

\* Blocker.block, the decorator of every method of People: the wrapper runs
\* the method only if blocker.state equals the decorator's argument ...
permits(state) == blockerState = state

\* ... and otherwise raises, without looking at the call's arguments
blocked(op, r) == Raise(op, r, "", "", 0, <<>>, PhaseError)

\* ---------------------------------------------------------------- draft phase: method bodies
AddBody(r, person) ==
    /\ Cardinality(people[r] \cup {person}) <= MaxPeople
    /\ people' = [people EXCEPT ![r] = @ \cup {person}]
    /\ last' = Call("add", r, person, "", 0, <<>>, NoError)
    /\ ret' = NoRet
    /\ UNCHANGED <<blockerState, peopleList, pairs, avoids, pairsIdx, avoidsIdx, kind>>

\* the error pair(a, b) raises, NoError when it adds the tuple
pairError(r, a, b) ==
    IF check(r, a) # NoError THEN check(r, a)
    ELSE IF check(r, b) # NoError THEN check(r, b)
    ELSE IF a = b THEN SamePerson
    ELSE IF \E link \in pairs[r] : Links(link, a, b) THEN AlreadyExists
    ELSE IF \E link \in avoids[r] : Links(link, a, b) THEN Opposing
    ELSE NoError

\* the error avoid(a, b) raises, NoError when it adds the tuple
avoidError(r, a, b) ==
    IF check(r, a) # NoError THEN check(r, a)
    ELSE IF check(r, b) # NoError THEN check(r, b)
    ELSE IF a = b THEN SamePerson
    ELSE IF \E link \in avoids[r] : Links(link, a, b) THEN AlreadyExists
    ELSE IF \E link \in pairs[r] : Links(link, a, b) THEN Opposing
    ELSE NoError

NumLinks(r) == Cardinality(pairs[r]) + Cardinality(avoids[r])

PairBody(r, a, b) ==
    LET err == pairError(r, a, b) IN
    IF err # NoError THEN Raise("pair", r, a, b, 0, <<>>, err)
    ELSE
        /\ NumLinks(r) < MaxLinks
        /\ pairs' = [pairs EXCEPT ![r] = @ \cup {<<a, b>>}]
        /\ last' = Call("pair", r, a, b, 0, <<>>, NoError)
        /\ ret' = NoRet
        /\ UNCHANGED <<blockerState, people, peopleList, avoids, pairsIdx, avoidsIdx, kind>>

AvoidBody(r, a, b) ==
    LET err == avoidError(r, a, b) IN
    IF err # NoError THEN Raise("avoid", r, a, b, 0, <<>>, err)
    ELSE
        /\ NumLinks(r) < MaxLinks
        /\ avoids' = [avoids EXCEPT ![r] = @ \cup {<<a, b>>}]
        /\ last' = Call("avoid", r, a, b, 0, <<>>, NoError)
        /\ ret' = NoRet
        /\ UNCHANGED <<blockerState, people, peopleList, pairs, pairsIdx, avoidsIdx, kind>>

\* The loop `for link in links: if a in link and b in link: links.remove(link);
\* return` of separate / unavoid: the outcomes [links, err] it can have.  The
\* function returns right after the removal, so the iterator is never advanced
\* over the changed set.
unlink(links, a, b) ==
    LET found == {link \in links : Links(link, a, b)}
    IN  IF found = {}
        THEN {[links |-> links, err |-> LinkNotFound]}
        ELSE {[links |-> links \ {link}, err |-> NoError] : link \in found}

SeparateBody(r, a, b) ==
    IF check(r, a) # NoError THEN Raise("separate", r, a, b, 0, <<>>, check(r, a))
    ELSE IF check(r, b) # NoError THEN Raise("separate", r, a, b, 0, <<>>, check(r, b))
    ELSE \E out \in unlink(pairs[r], a, b) :
        /\ pairs' = [pairs EXCEPT ![r] = out.links]
        /\ last' = Call("separate", r, a, b, 0, <<>>, out.err)
        /\ ret' = NoRet
        /\ UNCHANGED <<blockerState, people, peopleList, avoids, pairsIdx, avoidsIdx, kind>>

UnavoidBody(r, a, b) ==
    IF check(r, a) # NoError THEN Raise("unavoid", r, a, b, 0, <<>>, check(r, a))
    ELSE IF check(r, b) # NoError THEN Raise("unavoid", r, a, b, 0, <<>>, check(r, b))
    ELSE \E out \in unlink(avoids[r], a, b) :
        /\ avoids' = [avoids EXCEPT ![r] = out.links]
        /\ last' = Call("unavoid", r, a, b, 0, <<>>, out.err)
        /\ ret' = NoRet
        /\ UNCHANGED <<blockerState, people, peopleList, pairs, pairsIdx, avoidsIdx, kind>>

\* The loop `for link in links: if person in link: links.remove(link)` of
\* remove: the outcomes [links, err] it can have.  A set iterator raises
\* RuntimeError on the first step after the set changed size, also when the
\* removed element was the last one: the loop removes the first mentioning
\* tuple it meets (any of them, by iteration order) and then raises.
purge(links, person) ==
    LET found == {link \in links : Mentions(link, person)}
    IN  IF found = {}
        THEN {[links |-> links, err |-> NoError]}
        ELSE {[links |-> links \ {link}, err |-> SetChanged] : link \in found}

\* the statements of remove after check: the outcomes [pairs, avoids, err]
cascade(r, person) ==
    UNION {
        IF p.err # NoError
        THEN {[pairs |-> p.links, avoids |-> avoids[r], err |-> p.err]}
        ELSE {[pairs |-> p.links, avoids |-> a.links, err |-> a.err] :
                a \in purge(avoids[r], person)}
        : p \in purge(pairs[r], person)}

RemoveBody(r, person) ==
    IF check(r, person) # NoError
    THEN Raise("remove", r, person, "", 0, <<>>, check(r, person))
    ELSE \E out \in cascade(r, person) :
        /\ people' = [people EXCEPT ![r] = @ \ {person}]
        /\ pairs' = [pairs EXCEPT ![r] = out.pairs]
        /\ avoids' = [avoids EXCEPT ![r] = out.avoids]
        /\ last' = Call("remove", r, person, "", 0, <<>>, out.err)
        /\ ret' = NoRet
        /\ UNCHANGED <<blockerState, peopleList, pairsIdx, avoidsIdx, kind>>

\* ---------------------------------------------------------------- commit
\* list(self.people): every order of the set's elements
RECURSIVE Orders(_)
Orders(S) ==
    IF S = {} THEN {<<>>}
    ELSE UNION {{<<x>> \o rest : rest \in Orders(S \ {x})} : x \in S}

\* (the position counted from 1)
IndexFromOne(list, x) == CHOOSE i \in 1..Len(list) : list[i] = x

\* list.index(x), 0-based; the caller makes sure x is in the list
Index(list, x) == (CHOOSE i \in 1..Len(list) : list[i] = x /\ \A j \in 1..(i - 1) : list[j] # x) - 1

\* People.__indexLinks: [links, err]; list.index raises ValueError for a name
\* that is not in the list, and then the comprehension yields nothing
indexLinks(list, links) ==
    IF \E link \in links : link[1] \notin Range(list) \/ link[2] \notin Range(list)
    THEN [links |-> {}, err |-> NotInList]
    ELSE [links |-> {<<Index(list, link[1]), Index(list, link[2])>> : link \in links},
          err |-> NoError]

CommitBody(r) ==
    \E list \in Orders(people[r]) :
        LET p == indexLinks(list, pairs[r])
            a == indexLinks(list, avoids[r])
            pOk == p.err = NoError
            aOk == pOk /\ a.err = NoError
        IN  /\ blockerState' = TRUE
            /\ people' = [people EXCEPT ![r] = {}]
            /\ peopleList' = [peopleList EXCEPT ![r] = list]
            /\ pairs' = [pairs EXCEPT ![r] = IF pOk THEN {} ELSE @]
            /\ pairsIdx' = [pairsIdx EXCEPT ![r] = IF pOk THEN p.links ELSE @]
            /\ avoids' = [avoids EXCEPT ![r] = IF aOk THEN {} ELSE @]
            /\ avoidsIdx' = [avoidsIdx EXCEPT ![r] = IF aOk THEN a.links ELSE @]
            /\ kind' = [kind EXCEPT ![r] =
                          [people |-> "list",
                           pairs |-> IF pOk THEN "list" ELSE "set",
                           avoids |-> IF aOk THEN "list" ELSE "set"]]
            /\ last' = Call("commit", r, "", "", 0, <<>>,
                            IF ~pOk THEN p.err ELSE a.err)
            /\ ret' = NoRet


\* ---------------------------------------------------------------- frozen phase: method bodies
\* self.people[id] for an int: [names, err].  A set cannot be subscripted; a
\* list takes -len .. len - 1, negative ids counting from the end.
personInt(r, id) ==
    IF kind[r].people = "set" THEN [names |-> <<>>, err |-> NotSubscriptable]
    ELSE IF id >= Len(peopleList[r]) \/ id < -Len(peopleList[r])
    THEN [names |-> <<>>, err |-> IndexError]
    ELSE [names |-> <<peopleList[r][(id % Len(peopleList[r])) + 1]>>, err |-> NoError]

\* person(id) for a tuple or a list of ints: element by element, the first
\* failing element raising
personSeq(r, ids) ==
    IF \E i \in 1..Len(ids) : personInt(r, ids[i]).err # NoError
    THEN [names |-> <<>>,
          err |-> personInt(r, ids[CHOOSE i \in 1..Len(ids) :
                        /\ personInt(r, ids[i]).err # NoError
                        /\ \A j \in 1..(i - 1) : personInt(r, ids[j]).err = NoError]).err]
    ELSE [names |-> [i \in 1..Len(ids) |-> personInt(r, ids[i]).names[1]], err |-> NoError]

\* itertools.combinations(range(lo, hi), k): the ascending k-tuples over
\* lo .. hi - 1 in lexicographic order
PrependTo(x, tuples) == [i \in 1..Len(tuples) |-> <<x>> \o tuples[i]]

RECURSIVE combinations(_, _, _)
combinations(lo, hi, k) ==
    IF k = 0 THEN << <<>> >>
    ELSE IF hi - lo < k THEN <<>>
    ELSE PrependTo(lo, combinations(lo + 1, hi, k - 1)) \o combinations(lo + 1, hi, k)

\* tuple(S) for a set of small ints: CPython iterates it in ascending order
tupleOf(S) ==
    [i \in 1..Cardinality(S) |-> CHOOSE x \in S : Cardinality({y \in S : y < x}) = i - 1]

\* (the other team taken from 1 .. n instead of 0 .. n - 1)
getOtherTeamFromOne(r, team) == tupleOf((1..RosterSize(r)) \ Range(team))

\* getOtherTeam of teamOptions
getOtherTeam(r, team) == tupleOf((0..(RosterSize(r) - 1)) \ Range(team))

\* (the two teams of the tuple in the other order)
getBothTeamsSwapped(r, team) == <<getOtherTeam(r, team), team>>

\* getBothTeams of teamOptions
getBothTeams(r, team) == <<team, getOtherTeam(r, team)>>

\* map(getBothTeams, teamA)
bothTeams(r, teamA) == [i \in 1..Len(teamA) |-> getBothTeams(r, teamA[i])]

\* People.teamOptions: [options, err]; perTeam is len(self.people) // n
teamOptions(r, n) ==
    IF n < 2 THEN [options |-> <<>>, err |-> BadN]
    ELSE IF n > RosterSize(r) THEN [options |-> <<>>, err |-> BadN]
    ELSE [options |-> bothTeams(r, combinations(0, RosterSize(r), RosterSize(r) \div n)),
          err |-> NoError]

\* `x in team` for a tuple of ints
InTeam(x, team) == \E i \in 1..Len(team) : team[i] = x

\* the links isTeamOk loops over: index tuples once the attribute is a list.
\* While it is still a set of name tuples (commit failed on it, or was called
\* on another instance), no name is `in` a team of ints and no tuple decides.
pairLinks(r) == IF kind[r].pairs = "list" THEN pairsIdx[r] ELSE {}
avoidLinks(r) == IF kind[r].avoids = "list" THEN avoidsIdx[r] ELSE {}

\* (the loop over self.pairs left out)
isTeamOkAvoidsOnly(r, team) ==
    \A link \in avoidLinks(r) : ~(InTeam(link[1], team) /\ InTeam(link[2], team))

\* People.isTeamOk
isTeamOk(r, team) ==
    /\ \A link \in pairLinks(r) :
          /\ ~(InTeam(link[1], team) /\ ~InTeam(link[2], team))
          /\ ~(~InTeam(link[1], team) /\ InTeam(link[2], team))
    /\ \A link \in avoidLinks(r) :
          ~(InTeam(link[1], team) /\ InTeam(link[2], team))

\* People.areTeamsOk
areTeamsOk(r, teams) == \A i \in 1..Len(teams) : isTeamOk(r, teams[i])

\* list(filter(self.areTeamsOk, options))
filterOk(r, options) == SelectSeq(options, LAMBDA teams : areTeamsOk(r, teams))

\* (the empty list returned instead of raising)
nonEmptyUnchecked(options) == [options |-> options, err |-> NoError]

\* the end of getPossibleTeams: an empty list raises
nonEmpty(options) ==
    IF Len(options) = 0 THEN [options |-> <<>>, err |-> NoTeams]
    ELSE [options |-> options, err |-> NoError]

\* the body of getPossibleTeams given what teamOptions gave: its exception
\* propagates
filtered(r, all) ==
    IF all.err # NoError THEN all ELSE nonEmpty(filterOk(r, all.options))

\* People.getPossibleTeams: [options, err]
getPossibleTeams(r, n) == filtered(r, teamOptions(r, n))

\* a lookup returns or raises; it never changes the registry
Return(op, r, n, team, err, value) ==
    /\ last' = Call(op, r, "", "", n, team, err)
    /\ ret' = value
    /\ UNCHANGED <<blockerState, registry>>

\* the ids, teams and team counts the lookups are called with
Ids(r) == (-1)..RosterSize(r)
Teams(r) == {tupleOf(S) : S \in SUBSET (0..(RosterSize(r) - 1))}
Counts(r) == 1..(RosterSize(r) + 1)

\* the tuples of teams areTeamsOk is called with: every way to split
\* [0, roster size) into any number of non-empty teams, in every order of the
\* teams
Partitions(r) ==
    UNION {{[t \in 1..k |-> tupleOf({i \in 0..(RosterSize(r) - 1) : f[i] = t})] :
                f \in {g \in [0..(RosterSize(r) - 1) -> 1..k] :
                          \A t \in 1..k : \E i \in 0..(RosterSize(r) - 1) : g[i] = t}}
            : k \in 0..RosterSize(r)}

ReturnNames(op, r, id, out) ==
    Return(op, r, id, <<>>, out.err, [NoRet EXCEPT !.names = out.names])

ReturnOptions(op, r, n, out) ==
    Return(op, r, n, <<>>, out.err, [NoRet EXCEPT !.options = out.options])

PersonBody(r, id) == ReturnNames("person", r, id, personInt(r, id))

TeamOptionsBody(r, n) == ReturnOptions("teamOptions", r, n, teamOptions(r, n))

IsTeamOkBody(r, team) ==
    Return("isTeamOk", r, 0, team, NoError, [NoRet EXCEPT !.bool = isTeamOk(r, team)])

AreTeamsOkBody(r, teams) ==
    Return("areTeamsOk", r, 0, teams, NoError,
           [NoRet EXCEPT !.bool = areTeamsOk(r, teams)])

GetPossibleTeamsBody(r, n) ==
    ReturnOptions("getPossibleTeams", r, n, getPossibleTeams(r, n))

\* ---------------------------------------------------------------- the methods
\* Each method as decorated: @blocker.block(False) for the draft-phase
\* methods, @blocker.block(True) for the lookups.
Add(r) ==
    IF permits(FALSE) THEN \E name \in NamesOf(r) : AddBody(r, name)
    ELSE blocked("add", r)

Remove(r) ==
    IF permits(FALSE) THEN \E name \in NamesOf(r) : RemoveBody(r, name)
    ELSE blocked("remove", r)

Pair(r) ==
    IF permits(FALSE) THEN \E a \in NamesOf(r), b \in NamesOf(r) : PairBody(r, a, b)
    ELSE blocked("pair", r)

Separate(r) ==
    IF permits(FALSE) THEN \E a \in NamesOf(r), b \in NamesOf(r) : SeparateBody(r, a, b)
    ELSE blocked("separate", r)

Avoid(r) ==
    IF permits(FALSE) THEN \E a \in NamesOf(r), b \in NamesOf(r) : AvoidBody(r, a, b)
    ELSE blocked("avoid", r)

Unavoid(r) ==
    IF permits(FALSE) THEN \E a \in NamesOf(r), b \in NamesOf(r) : UnavoidBody(r, a, b)
    ELSE blocked("unavoid", r)

Commit(r) ==
    IF permits(FALSE) THEN CommitBody(r)
    ELSE blocked("commit", r)

Person(r) ==
    IF permits(TRUE) THEN \E id \in Ids(r) : PersonBody(r, id)
    ELSE blocked("person", r)

TeamOptions(r) ==
    IF permits(TRUE) THEN \E n \in Counts(r) : TeamOptionsBody(r, n)
    ELSE blocked("teamOptions", r)

IsTeamOk(r) ==
    IF permits(TRUE) THEN \E team \in Teams(r) : IsTeamOkBody(r, team)
    ELSE blocked("isTeamOk", r)

AreTeamsOk(r) ==
    IF permits(TRUE) THEN \E teams \in Partitions(r) : AreTeamsOkBody(r, teams)
    ELSE blocked("areTeamsOk", r)

GetPossibleTeams(r) ==
    IF permits(TRUE) THEN \E n \in Counts(r) : GetPossibleTeamsBody(r, n)
    ELSE blocked("getPossibleTeams", r)

\* ---------------------------------------------------------------- specification
Next ==
    \/ \E r \in Reg : Add(r)
    \/ \E r \in Reg : Remove(r)
    \/ \E r \in Reg : Pair(r)
    \/ \E r \in Reg : Separate(r)
    \/ \E r \in Reg : Avoid(r)
    \/ \E r \in Reg : Unavoid(r)
    \/ \E r \in Reg : Commit(r)
    \/ \E r \in Reg : Person(r)
    \/ \E r \in Reg : TeamOptions(r)
    \/ \E r \in Reg : IsTeamOk(r)
    \/ \E r \in Reg : AreTeamsOk(r)
    \/ \E r \in Reg : GetPossibleTeams(r)

\* every instance constructed as People()
Spec == Init /\ [][Next]_vars

\* The enumeration on larger rosters: r1 constructed as People(names) with
\* the first k of TeamNames, r2 as People(); then the links of the worked
\* example (required A-B, forbidden A-C, in either argument order) and a
\* second forbidden pair B-D, their removal, the removal of A, commit, and the
\* enumeration for every team count.
InitTeams ==
    /\ blockerState = FALSE
    /\ \E k \in 0..MaxRoster :
          people = [r \in Reg |-> IF r = "r1" THEN {TeamNames[i] : i \in 1..k} ELSE {}]
    /\ peopleList = [r \in Reg |-> <<>>]
    /\ pairs = [r \in Reg |-> {}]
    /\ avoids = [r \in Reg |-> {}]
    /\ pairsIdx = [r \in Reg |-> {}]
    /\ avoidsIdx = [r \in Reg |-> {}]
    /\ kind = [r \in Reg |-> [people |-> "set", pairs |-> "set", avoids |-> "set"]]
    /\ last = Call("init", "r1", "", "", 0, <<>>, NoError)
    /\ ret = NoRet

ExamplePair == {<<"A", "B">>, <<"B", "A">>}
ExampleAvoid == {<<"A", "C">>, <<"C", "A">>, <<"B", "D">>}

TeamsPair ==
    IF permits(FALSE) THEN \E link \in ExamplePair : PairBody("r1", link[1], link[2])
    ELSE blocked("pair", "r1")

TeamsSeparate ==
    IF permits(FALSE) THEN \E link \in ExamplePair : SeparateBody("r1", link[1], link[2])
    ELSE blocked("separate", "r1")

TeamsAvoid ==
    IF permits(FALSE) THEN \E link \in ExampleAvoid : AvoidBody("r1", link[1], link[2])
    ELSE blocked("avoid", "r1")

TeamsUnavoid ==
    IF permits(FALSE) THEN \E link \in ExampleAvoid : UnavoidBody("r1", link[1], link[2])
    ELSE blocked("unavoid", "r1")

TeamsRemove ==
    IF permits(FALSE) THEN RemoveBody("r1", "A")
    ELSE blocked("remove", "r1")

NextTeams ==
    \/ TeamsPair
    \/ TeamsRemove
    \/ TeamsSeparate
    \/ TeamsAvoid
    \/ TeamsUnavoid
    \/ Commit("r1")
    \/ TeamOptions("r1")
    \/ GetPossibleTeams("r1")

SpecTeams == InitTeams /\ [][NextTeams]_vars


\* ---------------------------------------------------------------- properties
DraftOps == {"add", "remove", "pair", "separate", "avoid", "unavoid", "commit"}
LookupOps == {"person", "teamOptions", "isTeamOk", "areTeamsOk", "getPossibleTeams"}

\* the name at index i of r's list
NameAt(r, i) == peopleList[r][i + 1]

\* the required / forbidden pairs r holds, as name tuples, whichever container
\* and element type the attribute has at the moment
RequiredPairs(r) ==
    IF kind[r].pairs = "set" THEN pairs[r]
    ELSE {<<NameAt(r, link[1]), NameAt(r, link[2])>> : link \in pairsIdx[r]}

ForbiddenPairs(r) ==
    IF kind[r].avoids = "set" THEN avoids[r]
    ELSE {<<NameAt(r, link[1]), NameAt(r, link[2])>> : link \in avoidsIdx[r]}

\* the teams of an option (positions in the tuple) that hold the person `name`
TeamsOf(r, option, name) ==
    {k \in 1..Len(option) :
        \E j \in 1..Len(option[k]) :
            /\ option[k][j] \in 0..(Len(peopleList[r]) - 1)
            /\ NameAt(r, option[k][j]) = name}

SameTeam(r, option, a, b) == \E k \in TeamsOf(r, option, a) : k \in TeamsOf(r, option, b)

DifferentTeams(r, option, a, b) ==
    /\ TeamsOf(r, option, a) # {}
    /\ TeamsOf(r, option, b) # {}
    /\ TeamsOf(r, option, a) \cap TeamsOf(r, option, b) = {}

\* the last call was getPossibleTeams on r and it returned a list
Enumerated(r) ==
    last.op = "getPossibleTeams" /\ last.reg = r /\ last.err = NoError

\* C1: a call of a draft-phase method (add, remove, pair, separate, avoid,
\* unavoid, commit) made while the blocker is frozen raises the phase error,
\* and a call of a lookup (person, teamOptions, isTeamOk, areTeamsOk,
\* getPossibleTeams) made while it is still draft raises the phase error, on
\* every instance and for every argument.
C1_PhaseGuard ==
    [][/\ (blockerState /\ last'.op \in DraftOps) => last'.err = PhaseError
       /\ (~blockerState /\ last'.op \in LookupOps) => last'.err = PhaseError]_vars

\* a draft-phase method called after commit() and refused
C1_Witness ==
    /\ blockerState
    /\ kind["r1"].people = "list"
    /\ last.op = "remove"
    /\ last.reg = "r1"
    /\ last.err = PhaseError

\* C2 (as claimed): in every option getPossibleTeams returns on a registry
\* commit() was called on, the two members of every required pair are in the
\* same team.  Stated for the pairs both of whose members are on the roster.
C2_RequiredTogether ==
    \A r \in Reg :
        (Enumerated(r) /\ kind[r].people = "list") =>
            \A k \in 1..Len(ret.options) :
                \A link \in RequiredPairs(r) :
                    (link[1] \in Roster(r) /\ link[2] \in Roster(r)) =>
                        SameTeam(r, ret.options[k], link[1], link[2])

\* C3 (as claimed): in every option getPossibleTeams returns on a registry
\* commit() was called on, the two members of every forbidden pair are in
\* different teams.  Stated for the pairs both of whose members are on the
\* roster.
C3_ForbiddenApart ==
    \A r \in Reg :
        (Enumerated(r) /\ kind[r].people = "list") =>
            \A k \in 1..Len(ret.options) :
                \A link \in ForbiddenPairs(r) :
                    (link[1] \in Roster(r) /\ link[2] \in Roster(r)) =>
                        DifferentTeams(r, ret.options[k], link[1], link[2])

\* how often index i occurs in the teams of an option
Occurrences(option, i) ==
    Cardinality({kj \in (1..Len(option)) \X (0..MaxRoster + MaxPeople) :
                    kj[2] \in 1..Len(option[kj[1]]) /\ option[kj[1]][kj[2]] = i})

\* C4: every option getPossibleTeams returns holds every index of
\* [0, roster size) exactly once over all its teams (the teams are pairwise
\* disjoint and cover the universe) and holds nothing else.
C4_Partition ==
    \A r \in Reg :
        Enumerated(r) =>
            \A k \in 1..Len(ret.options) :
                /\ \A i \in 0..(RosterSize(r) - 1) : Occurrences(ret.options[k], i) = 1
                /\ \A t \in 1..Len(ret.options[k]) :
                      Range(ret.options[k][t]) \subseteq 0..(RosterSize(r) - 1)

\* an enumeration of a four-person roster: teams of two
C4_Witness ==
    /\ Enumerated("r1")
    /\ RosterSize("r1") = 4
    /\ last.n = 2
    /\ Len(ret.options) >= 2


\* C5 (as claimed): after remove(name) ran on a name of the roster, the name
\* is off the roster (so that pair(name, x) raises not-found) and no tuple of
\* pairs or avoids mentions it.
C5_RemoveCascades ==
    \A r \in Reg :
        (last.op = "remove" /\ last.reg = r /\ last.err \notin {PhaseError, NotFound}) =>
            /\ last.a \notin people[r]
            /\ \A x \in Names : pairError(r, last.a, x) = NotFound
            /\ \A link \in pairs[r] \cup avoids[r] : ~Mentions(link, last.a)

\* no unordered pair is in both relation sets
NoPairInBoth(r) ==
    \A p \in pairs[r], a \in avoids[r] : ~Links(a, p[1], p[2])

\* C6 (as claimed): in draft phase avoid(a, b) raises the conflict error when
\* a tuple of pairs links a and b, pair(a, b) raises it when a tuple of avoids
\* links them, in either argument order; and no unordered pair is in both
\* sets.
C6_MutualExclusion ==
    [][\A r \in Reg :
        /\ ( /\ ~blockerState
             /\ last'.op = "avoid" /\ last'.reg = r /\ last'.a # last'.b
             /\ \E link \in pairs[r] : Links(link, last'.a, last'.b) )
           => last'.err = Opposing
        /\ ( /\ ~blockerState
             /\ last'.op = "pair" /\ last'.reg = r /\ last'.a # last'.b
             /\ \E link \in avoids[r] : Links(link, last'.a, last'.b) )
           => last'.err = Opposing
        /\ NoPairInBoth(r)']_vars

\* C7 (as claimed): for 2 <= n <= roster size, every option getPossibleTeams(n)
\* returns has exactly n teams.
C7_DegreeN ==
    \A r \in Reg :
        (Enumerated(r) /\ 2 <= last.n /\ last.n <= RosterSize(r)) =>
            \A k \in 1..Len(ret.options) : Len(ret.options[k]) = last.n

\* person() applied to an option: each team as the set of its names
Resolved(r, option) == [t \in 1..Len(option) |-> Range(personSeq(r, option[t]).names)]

ResolvedOptions(r) == {Resolved(r, ret.options[k]) : k \in 1..Len(ret.options)}

\* the worked example: roster {A, B, C, D}, A-B required, A-C forbidden, commit
\* returned, getPossibleTeams(2) called
Example ==
    /\ last.op = "getPossibleTeams" /\ last.reg = "r1" /\ last.n = 2
    /\ kind["r1"] = [people |-> "list", pairs |-> "list", avoids |-> "list"]
    /\ Roster("r1") = {"A", "B", "C", "D"}
    /\ RequiredPairs("r1") \in {{<<"A", "B">>}, {<<"B", "A">>}}
    /\ ForbiddenPairs("r1") \in {{<<"A", "C">>}, {<<"C", "A">>}}

\* C8 (as claimed): in the worked example getPossibleTeams returns exactly two
\* options, ({A,B,D},{C}) and ({A,B},{C,D}).
C8_ExampleAsClaimed ==
    Example =>
        /\ last.err = NoError
        /\ Len(ret.options) = 2
        /\ ResolvedOptions("r1") =
              {<<{"A", "B", "D"}, {"C"}>>, <<{"A", "B"}, {"C", "D"}>>}

\* C8 (amended): in the worked example getPossibleTeams returns exactly two
\* options, ({A,B},{C,D}) and ({C,D},{A,B}): the one split into two teams of
\* two that keeps A with B, once with each half as the chosen subset.
C8_Example ==
    Example =>
        /\ last.err = NoError
        /\ Len(ret.options) = 2
        /\ ResolvedOptions("r1") =
              {<<{"A", "B"}, {"C", "D"}>>, <<{"C", "D"}, {"A", "B"}>>}

C8_Witness == Example /\ last.err = NoError /\ Len(ret.options) = 2

\* an option meets the links the registry enforces: each enforced required
\* pair inside one team, no enforced forbidden pair inside one team
MeetsLinks(r, option) ==
    /\ \A link \in pairLinks(r) :
          \E t \in 1..Len(option) : InTeam(link[1], option[t]) /\ InTeam(link[2], option[t])
    /\ \A link \in avoidLinks(r) :
          \A t \in 1..Len(option) : ~(InTeam(link[1], option[t]) /\ InTeam(link[2], option[t]))

Valid(r, option) ==
    /\ \A link \in RequiredPairs(r) :
          (link[1] \in Roster(r) /\ link[2] \in Roster(r)) =>
              SameTeam(r, option, link[1], link[2])
    /\ \A link \in ForbiddenPairs(r) :
          (link[1] \in Roster(r) /\ link[2] \in Roster(r)) =>
              DifferentTeams(r, option, link[1], link[2])

\* C10 (as claimed): on a registry commit() was called on, getPossibleTeams(n)
\* returns exactly the candidates of teamOptions(n) that are valid, none
\* omitted, none added, in the order teamOptions generated them.
C10_ExactlyTheValid ==
    \A r \in Reg :
        (Enumerated(r) /\ kind[r].people = "list") =>
            ret.options = SelectSeq(teamOptions(r, last.n).options,
                                    LAMBDA option : Valid(r, option))

\* C11: commit is irreversible: once blocker.state is True it is True after
\* every later call (no method of People sets it back), and a commit() called
\* while it is True, on any instance, raises the phase error.
C11_Irreversible ==
    [][blockerState =>
          /\ blockerState'
          /\ last'.op = "commit" => last'.err = PhaseError]_vars

\* a second commit() on the committed registry, refused
C11_Witness ==
    /\ blockerState
    /\ kind["r1"].people = "list"
    /\ last.op = "commit"
    /\ last.reg = "r1"
    /\ last.err = PhaseError

\* C(n, k), the number of k-element subsets of an n-element set
RECURSIVE Binomial(_, _)
Binomial(n, k) ==
    IF k = 0 THEN 1
    ELSE IF n = 0 THEN 0
    ELSE Binomial(n - 1, k - 1) + Binomial(n - 1, k)

\* the subsets of [0, R) of size floor(R / n)
SubsetsOfSize(R, n) == {S \in SUBSET (0..(R - 1)) : Cardinality(S) = R \div n}

\* a tuple lists the set S, each element once
Lists(tuple, S) == Range(tuple) = S /\ Len(tuple) = Cardinality(S)

NeverCommitted(r) == kind[r].people = "set"

\* C13: the phase flag is global: once commit() ran on one instance, every
\* draft-phase method (add, remove, pair, separate, avoid, unavoid, commit)
\* called on an instance that was never committed raises the phase error and
\* leaves that instance as it was.
C13_GlobalFlag ==
    [][\A r \in Reg :
          ( /\ blockerState
            /\ NeverCommitted(r)
            /\ last'.reg = r
            /\ last'.op \in DraftOps )
          => /\ last'.err = PhaseError
             /\ NeverCommitted(r)'
             /\ people'[r] = people[r]
             /\ pairs'[r] = pairs[r]
             /\ avoids'[r] = avoids[r]]_vars

\* r1 committed, r2 not, and add refused on r2
C13_Witness ==
    /\ blockerState
    /\ ~NeverCommitted("r1")
    /\ NeverCommitted("r2")
    /\ last.op = "add"
    /\ last.reg = "r2"
    /\ last.err = PhaseError

\* the index tuples are tuples over [0, len(list))
IndexTuples(links, list) ==
    \A link \in links : link[1] \in 0..(Len(list) - 1) /\ link[2] \in 0..(Len(list) - 1)

\* the index tuples resolved to name tuples through the list
NamesOfLinks(links, list) == {<<list[link[1] + 1], list[link[2] + 1]>> : link \in links}

\* C14: a commit() that returns normally leaves the roster as a list in which
\* every name of the draft roster occurs at exactly one index and nothing else
\* occurs, and leaves pairs and avoids as index tuples that are exactly the
\* images of the draft name tuples: each index tuple resolves (person()) to a
\* draft name tuple of the same relation, every draft name tuple is the
\* resolution of one, and no two index tuples resolve to the same one.
C14_IndexImage ==
    [][\A r \in Reg :
          (last'.op = "commit" /\ last'.reg = r /\ last'.err = NoError) =>
              /\ kind'[r] = [people |-> "list", pairs |-> "list", avoids |-> "list"]
              /\ Lists(peopleList'[r], people[r])
              /\ \A name \in people[r] :
                    Cardinality({i \in 0..(Len(peopleList'[r]) - 1) :
                                    personInt(r, i)'.names = <<name>>}) = 1
              /\ IndexTuples(pairsIdx'[r], peopleList'[r])
              /\ IndexTuples(avoidsIdx'[r], peopleList'[r])
              /\ NamesOfLinks(pairsIdx'[r], peopleList'[r]) = pairs[r]
              /\ NamesOfLinks(avoidsIdx'[r], peopleList'[r]) = avoids[r]
              /\ Cardinality(pairsIdx'[r]) = Cardinality(pairs[r])
              /\ Cardinality(avoidsIdx'[r]) = Cardinality(avoids[r])]_vars

\* a commit() that returned normally on three people with a required and a
\* forbidden pair
C14_Witness ==
    /\ last.op = "commit" /\ last.reg = "r1" /\ last.err = NoError
    /\ RosterSize("r1") = 3
    /\ pairsIdx["r1"] # {}
    /\ avoidsIdx["r1"] # {}

\* no tuple of either relation, names or indices, links a person to itself
NoSelfLinks ==
    \A r \in Reg :
        /\ \A link \in pairs[r] \cup avoids[r] : link[1] # link[2]
        /\ \A link \in pairsIdx[r] \cup avoidsIdx[r] : link[1] # link[2]

\* C15: in draft phase pair(a, b) and avoid(a, b) raise the not-found error
\* when a or b is not on the roster, and the cannot-link-with-itself error when
\* a = b is on the roster; either way the roster and both relation sets stay
\* as they were.  No state holds a relation whose two members are equal.
C15_LinkArguments ==
    [][/\ \A r \in Reg :
            (~blockerState /\ last'.reg = r /\ last'.op \in {"pair", "avoid"}) =>
                /\ (last'.a \notin people[r] \/ last'.b \notin people[r]) =>
                        last'.err = NotFound /\ UNCHANGED registry
                /\ (last'.a \in people[r] /\ last'.a = last'.b) =>
                        last'.err = SamePerson /\ UNCHANGED registry
       /\ NoSelfLinks
       /\ NoSelfLinks']_vars

\* avoid(A, A) refused with A on the roster
C15_Witness ==
    /\ ~blockerState
    /\ last.op = "avoid" /\ last.reg = "r1"
    /\ last.a = "A" /\ last.b = "A"
    /\ "A" \in people["r1"]
    /\ last.err = SamePerson

\* C16 (as claimed): in draft phase remove(name) raises exactly when the name
\* is not on the roster (the not-found error, nothing changed); with the name
\* on the roster it returns without raising, whatever tuples mention the name.
C16_RemoveErrors ==
    [][\A r \in Reg :
          (~blockerState /\ last'.op = "remove" /\ last'.reg = r) =>
              /\ last'.a \notin people[r] => last'.err = NotFound /\ UNCHANGED registry
              /\ last'.a \in people[r] => last'.err = NoError]_vars

\* the tuples of a relation set that are the unordered pair {a, b}
Holding(links, a, b) == {link \in links : {link[1], link[2]} = {a, b}}

\* C17 (as claimed): in draft phase separate(a, b) / unavoid(a, b) raise a
\* not-found error and change nothing when a or b is not on the roster or the
\* unordered pair {a, b} is not in pairs / avoids; otherwise they return
\* normally having removed exactly the one tuple that is that unordered pair,
\* in whichever argument order it was added, and nothing else: the roster, the
\* other relation set and every other tuple stay.
C17_UnlinkFrame ==
    [][\A r \in Reg :
          (~blockerState /\ last'.reg = r /\ last'.op \in {"separate", "unavoid"}) =>
              LET a == last'.a
                  b == last'.b
                  links == IF last'.op = "separate" THEN pairs[r] ELSE avoids[r]
                  after == IF last'.op = "separate" THEN pairs'[r] ELSE avoids'[r]
                  present == a \in people[r] /\ b \in people[r]
              IN  IF ~present \/ Holding(links, a, b) = {}
                  THEN /\ last'.err \in {NotFound, LinkNotFound}
                       /\ UNCHANGED registry
                  ELSE /\ last'.err = NoError
                       /\ Cardinality(Holding(links, a, b)) = 1
                       /\ after = links \ Holding(links, a, b)
                       /\ people' = people
                       /\ last'.op = "separate" => avoids' = avoids
                       /\ last'.op = "unavoid" => pairs' = pairs
                       /\ UNCHANGED <<peopleList, pairsIdx, avoidsIdx, kind>>]_vars

\* the last call was areTeamsOk on r; last.team holds the tuple of teams
Judged(r) == last.op = "areTeamsOk" /\ last.reg = r /\ last.err = NoError

\* C18 (as claimed): for every tuple of pairwise disjoint teams that covers
\* the roster of a registry commit() was called on, areTeamsOk returns True if
\* and only if every required pair has both members in one team and every
\* forbidden pair has its members in different teams.  Stated for the pairs
\* both of whose members are on the roster.
C18_PartitionValidity ==
    \A r \in Reg :
        (Judged(r) /\ kind[r].people = "list") =>
            (ret.bool <=> Valid(r, last.team))

\* C19 (as claimed): in every draft-phase state, whatever calls of add,
\* remove, pair, separate, avoid and unavoid led to it and whether or not they
\* raised, both members of every tuple of pairs and of avoids are on the
\* roster.
C19_ReferentialIntegrity ==
    ~blockerState =>
        \A r \in Reg :
            \A link \in pairs[r] \cup avoids[r] :
                link[1] \in people[r] /\ link[2] \in people[r]

\* the registry is wholly frozen: the roster a list, both relations lists of
\* index tuples over [0, roster size)
Frozen(r) ==
    /\ kind[r] = [people |-> "list", pairs |-> "list", avoids |-> "list"]
    /\ IndexTuples(pairsIdx[r], peopleList[r])
    /\ IndexTuples(avoidsIdx[r], peopleList[r])

\* C20 (as claimed): commit is all or nothing: whenever the flag is frozen,
\* the registry commit() was called on is wholly frozen; a commit() that raised
\* anything but the phase error left the flag draft.
C20_AllOrNothing ==
    /\ blockerState =>
          /\ \E r \in Reg : ~NeverCommitted(r)
          /\ \A r \in Reg : ~NeverCommitted(r) => Frozen(r)
    /\ (last.op = "commit" /\ last.err \notin {NoError, PhaseError}) => ~blockerState

====
